---- MODULE Spec2Model ----
(***************************************************************************)
(* cyberdyne blackboards: Field / DerivedField descriptors.                *)
(*                                                                         *)
(* A container type (a class body) declares Field and DerivedField         *)
(* descriptors.  Binding the descriptors to their names (__set_name__)     *)
(* builds, for every Field, the list _dependents.  Instances keep one      *)
(* AsyncValue per attribute in obj.__dict__, created on first use.         *)
(***************************************************************************)
EXTENDS Integers, Sequences, FiniteSets, TLC

\* Values a caller assigns to a source attribute: 0..MaxVal.
MaxVal == 1

\* The two container instances the operations act on.
Instances == {"X", "Y"}

---------------------------------------------------------------------------
(* Declarations.  A class body is the sequence of its descriptors in the   *)
(* order in which __set_name__ is called on them.                          *)

\* Field(initial_value)
NewField(n, v) ==
    [name |-> n, type |-> "Field", initial_value |-> v,
     fn |-> "none", depends_on |-> <<>>]

\* DerivedField(fn, depends_on)
NewDerivedField(n, f, deps) ==
    [name |-> n, type |-> "DerivedField", initial_value |-> 0,
     fn |-> f, depends_on |-> deps]

\* The container types of the model.  Example is the class of the tests.
\* Diamond: d reaches a through two paths, and b has no dependents.
\* Misordered: d is bound to its name before the derived field c it reads.
\* Partial and PartialTwo: the compute function of e raises when a is 0.
\* Skipped: e raises when a is 0 and is listed before d, which does not
\* read e.
Classes ==
    [ Example |->
        << NewField("a", 1), NewField("b", 2),
           NewDerivedField("c", "add", <<"a", "b">>),
           NewDerivedField("d", "twice", <<"c">>) >>,
      Diamond |->
        << NewField("a", 1), NewField("b", 2),
           NewDerivedField("c", "twice", <<"a">>),
           NewDerivedField("d", "add", <<"a", "c">>) >>,
      Misordered |->
        << NewField("a", 1),
           NewDerivedField("d", "twice", <<"c">>),
           NewDerivedField("c", "twice", <<"a">>) >>,
      Partial |->
        << NewField("a", 1),
           NewDerivedField("c", "twice", <<"a">>),
           NewDerivedField("e", "inv", <<"a">>),
           NewDerivedField("d", "add", <<"c", "e">>) >>,
      PartialTwo |->
        << NewField("a", 1), NewField("b", 2),
           NewDerivedField("e", "inv", <<"a">>),
           NewDerivedField("d", "add", <<"a", "e">>) >>,
      Skipped |->
        << NewField("a", 1),
           NewDerivedField("e", "inv", <<"a">>),
           NewDerivedField("d", "twice", <<"a">>) >> ]

VARIABLES
    cls,         \* the container type being defined and used
    bound,       \* number of descriptors __set_name__ has been called on
    dependents,  \* Field name -> its _dependents list (DerivedField names)
    dict,        \* instance -> obj.__dict__ (attribute name -> AsyncValue)
    heap,        \* AsyncValue object -> its .value
    written,     \* instance -> source attributes assigned so far
    failed,      \* instance -> a source assignment has raised
    last         \* the last attribute access and how it ended

vars == <<cls, bound, dependents, dict, heap, written, failed, last>>

Decls == Classes[cls]

Names == {Decls[k].name : k \in 1..Len(Decls)}

Decl(n) == Decls[CHOOSE k \in 1..Len(Decls) : Decls[k].name = n]

Fields == {n \in Names : Decl(n).type = "Field"}

DerivedFields == {n \in Names : Decl(n).type = "DerivedField"}

EmptyDict == [n \in {} |-> 0]

NoAccess ==
    [op |-> "none", inst |-> "none", name |-> "none", value |-> 0,
     outcome |-> "none", ret |-> <<>>, calls |-> <<>>, gets |-> {},
     updates |-> <<>>]

Init ==
    /\ cls \in DOMAIN Classes
    /\ bound = 0
    /\ dependents = [n \in Fields |-> <<>>]
    /\ dict = [i \in Instances |-> EmptyDict]
    /\ heap = EmptyDict
    /\ written = [i \in Instances |-> {}]
    /\ failed = [i \in Instances |-> FALSE]
    /\ last = NoAccess

---------------------------------------------------------------------------
(* Type definition: _add_dependent and __set_name__.                       *)

\* Field._add_dependent with insert(0, field) for append.
Field_add_dependent_prepending(deps, n, field) ==
    [deps EXCEPT ![n] = <<field>> \o @]

\* Field._add_dependent: append to this Field's list.
Field_add_dependent(deps, n, field) ==
    [deps EXCEPT ![n] = Append(@, field)]

RECURSIVE Derived_add_dependent(_, _, _)
RECURSIVE AddDependentAll(_, _, _)

\* dependency._add_dependent(field), whichever descriptor dependency is.
AddDependent(deps, n, field) ==
    IF Decl(n).type = "Field"
    THEN Field_add_dependent(deps, n, field)
    ELSE Derived_add_dependent(deps, n, field)

\* for dependency in ups: dependency._add_dependent(field)
AddDependentAll(deps, ups, field) ==
    IF ups = <<>> THEN deps
    ELSE AddDependentAll(AddDependent(deps, Head(ups), field), Tail(ups), field)

\* DerivedField._add_dependent that forwards to nobody.
Derived_add_dependent_dropping(deps, n, field) == deps

\* DerivedField._add_dependent: forward to every upstream of this field.
Derived_add_dependent(deps, n, field) ==
    AddDependentAll(deps, Decl(n).depends_on, field)

\* DerivedField.__set_name__: register self with every upstream.
Derived_set_name(deps, n) ==
    AddDependentAll(deps, Decl(n).depends_on, n)

\* Field.__set_name__: only records the name.
Field_set_name(deps, n) == deps

\* One __set_name__ call of the class creation, in class-body order.
SetName ==
    /\ bound < Len(Decls)
    /\ LET d == Decls[bound + 1] IN
         dependents' = IF d.type = "Field"
                       THEN Field_set_name(dependents, d.name)
                       ELSE Derived_set_name(dependents, d.name)
    /\ bound' = bound + 1
    /\ UNCHANGED <<cls, dict, heap, written, failed, last>>

TypeDefined == bound = Len(Decls)

---------------------------------------------------------------------------
(* Instance runtime.  The descriptor methods are operators on the record   *)
(* st: the instance dictionaries and the AsyncValue objects as the call    *)
(* has left them so far, the compute functions invoked (calls), the        *)
(* attributes read through getattr (gets), the dependents whose _update    *)
(* has returned (updates), the exception being raised (err) and the value  *)
(* being returned.                                                         *)

Begin ==
    [dict |-> dict, heap |-> heap, calls |-> <<>>, gets |-> {},
     updates |-> <<>>, err |-> "none", ret |-> <<>>, rets |-> <<>>,
     val |-> 0]

\* No exception is propagating.
Ok(st) == st.err = "none"

\* The compute functions of the declarations: lambda a, b: a + b,
\* lambda c: 2 * c, and lambda a: 6 // a, which raises on 0.
FnRaises(f, args) == f = "inv" /\ args[1] = 0

Fn(f, args) ==
    CASE f = "add"   -> args[1] + args[2]
      [] f = "twice" -> 2 * args[1]
      [] f = "inv"   -> 6 \div args[1]

\* AsyncValue(...): a new object, distinct from every object made so far.
\* Objects are named by the slot they were made for and a serial number.
NewObject(h, obj, n) ==
    <<obj, n, 1 + Cardinality({x \in DOMAIN h : x[1] = obj /\ x[2] = n})>>

\* The AsyncValue kept in the descriptor's own dictionary, which every
\* instance shares, instead of obj.__dict__.
StoreAsyncValue_shared(st, obj, n, value) ==
    [st EXCEPT !.heap = (NewObject(st.heap, obj, n) :> value) @@ @,
               !.dict = [o \in Instances |->
                            (n :> NewObject(st.heap, obj, n)) @@ st.dict[o]]]

\* obj.__dict__[self.name] = AsyncValue(value)
StoreAsyncValue(st, obj, n, value) ==
    [st EXCEPT !.heap = (NewObject(st.heap, obj, n) :> value) @@ @,
               !.dict[obj] = (n :> NewObject(st.heap, obj, n)) @@ @]

\* async_value.value = value
SetValue(st, async_value, value) ==
    [st EXCEPT !.heap[async_value] = value]

\* return obj.__dict__[self.name], unless an exception is propagating
ReturnEntry(st, obj, n) ==
    IF Ok(st) THEN [st EXCEPT !.ret = st.dict[obj][n]] ELSE st

\* Field._ensure_initial_value making the AsyncValue without the
\* declared initial value.
Field_ensure_initial_value_blank(st, obj, n) ==
    IF n \notin DOMAIN st.dict[obj]
    THEN StoreAsyncValue(st, obj, n, 0)
    ELSE st

\* Field._ensure_initial_value
Field_ensure_initial_value(st, obj, n) ==
    IF n \notin DOMAIN st.dict[obj]
    THEN StoreAsyncValue(st, obj, n, Decl(n).initial_value)
    ELSE st

\* Field.__get__
Field_get(st, obj, n) ==
    ReturnEntry(Field_ensure_initial_value(st, obj, n), obj, n)

RECURSIVE Derived_compute_value(_, _, _)
RECURSIVE Derived_ensure_initial_value(_, _, _)
RECURSIVE Derived_get(_, _, _)
RECURSIVE GetattrAll(_, _, _, _)

\* getattr(obj, name): the descriptor of that name answers.
Getattr(st, obj, n) ==
    IF Decl(n).type = "Field"
    THEN Field_get([st EXCEPT !.gets = @ \cup {n}], obj, n)
    ELSE Derived_get([st EXCEPT !.gets = @ \cup {n}], obj, n)

\* The list comprehension after one getattr: keep the AsyncValue it
\* returned and go on with the other upstreams, unless it raised.
GetattrRest(s1, obj, ups, acc) ==
    IF Ok(s1) THEN GetattrAll(s1, obj, ups, Append(acc, s1.ret)) ELSE s1

\* [getattr(obj, field.name) for field in self._depends_on]
GetattrAll(st, obj, ups, acc) ==
    IF ups = <<>> THEN [st EXCEPT !.rets = acc]
    ELSE GetattrRest(Getattr(st, obj, Head(ups)), obj, Tail(ups), acc)

\* The .value of each AsyncValue gathered, read when _fn is called.
Values(st) == [k \in 1..Len(st.rets) |-> st.heap[st.rets[k]]]

\* new_value = self._fn(*(async_value.value for ...)); return new_value
CallFn(s1, n) ==
    IF ~Ok(s1) THEN s1
    ELSE IF FnRaises(Decl(n).fn, Values(s1))
    THEN [s1 EXCEPT !.calls = Append(@, n), !.err = "ZeroDivisionError"]
    ELSE [s1 EXCEPT !.calls = Append(@, n),
                    !.val = Fn(Decl(n).fn, Values(s1))]

\* DerivedField._compute_value: read every upstream through getattr, then
\* apply _fn to the values the AsyncValues hold.
Derived_compute_value(st, obj, n) ==
    CallFn(GetattrAll(st, obj, Decl(n).depends_on, <<>>), n)

\* The initial value stored in a new obj.__dict__ that holds no other
\* entry.
StoreInitialValue_alone(s1, obj, n) ==
    IF Ok(s1)
    THEN [s1 EXCEPT !.heap = (NewObject(s1.heap, obj, n) :> s1.val) @@ @,
                    !.dict[obj] = (n :> NewObject(s1.heap, obj, n))]
    ELSE s1

\* obj.__dict__[self.name] = AsyncValue(initial_value), once
\* _compute_value has returned initial_value
StoreInitialValue(s1, obj, n) ==
    IF Ok(s1) THEN StoreAsyncValue(s1, obj, n, s1.val) ELSE s1

\* DerivedField._ensure_initial_value making the AsyncValue without
\* computing a value for it.
Derived_ensure_initial_value_blank(st, obj, n) ==
    IF n \notin DOMAIN st.dict[obj]
    THEN StoreAsyncValue(st, obj, n, 0)
    ELSE st

\* DerivedField._ensure_initial_value calling _compute_value before it
\* looks for the entry.
Derived_ensure_initial_value_hoisted(st, obj, n) ==
    IF n \notin DOMAIN st.dict[obj]
    THEN StoreInitialValue(Derived_compute_value(st, obj, n), obj, n)
    ELSE [Derived_compute_value(st, obj, n) EXCEPT !.val = st.val]

\* DerivedField._ensure_initial_value
Derived_ensure_initial_value(st, obj, n) ==
    IF n \notin DOMAIN st.dict[obj]
    THEN StoreInitialValue(Derived_compute_value(st, obj, n), obj, n)
    ELSE st

\* async_value.value = <what _compute_value returned>
StoreNewValue(s2, async_value) ==
    IF Ok(s2) THEN SetValue(s2, async_value, s2.val) ELSE s2

\* DerivedField._update computing and storing the value a second time.
Recompute_twice(s1, obj, n) ==
    IF Ok(s1)
    THEN StoreNewValue(
             Derived_compute_value(
                 StoreNewValue(Derived_compute_value(s1, obj, n),
                               s1.dict[obj][n]),
                 obj, n),
             s1.dict[obj][n])
    ELSE s1

\* DerivedField._update after _ensure_initial_value:
\* async_value = obj.__dict__[self.name]
\* async_value.value = self._compute_value(obj)
Recompute(s1, obj, n) ==
    IF Ok(s1)
    THEN StoreNewValue(Derived_compute_value(s1, obj, n), s1.dict[obj][n])
    ELSE s1

\* DerivedField._update that stops after _ensure_initial_value.
Derived_update_ensuring_only(st, obj, n) ==
    Derived_ensure_initial_value(st, obj, n)

\* DerivedField._update
Derived_update(st, obj, n) ==
    Recompute(Derived_ensure_initial_value(st, obj, n), obj, n)

\* DerivedField.__get__ that brings the value up to date before it
\* returns the entry.
Derived_get_updating(st, obj, n) ==
    ReturnEntry(Derived_update(st, obj, n), obj, n)

\* DerivedField.__get__
Derived_get(st, obj, n) ==
    ReturnEntry(Derived_ensure_initial_value(st, obj, n), obj, n)

\* dependent._update(obj) has returned, unless it raised.
Updated(s1, n) ==
    IF Ok(s1) THEN [s1 EXCEPT !.updates = Append(@, n)] ELSE s1

\* The loop of Field.__set__ leaving after its first dependent.
UpdateAll_first_only(st, obj, deps) ==
    IF deps = <<>> \/ ~Ok(st) THEN st
    ELSE Updated(Derived_update(st, obj, Head(deps)), Head(deps))

RECURSIVE UpdateAll(_, _, _)
\* for dependent in self._dependents: dependent._update(obj)
UpdateAll(st, obj, deps) ==
    IF deps = <<>> \/ ~Ok(st) THEN st
    ELSE UpdateAll(Updated(Derived_update(st, obj, Head(deps)), Head(deps)),
                   obj, Tail(deps))

\* Field.__set__ putting a new AsyncValue in place of the stored one.
Assign_replacing(s1, obj, n, value) == StoreAsyncValue(s1, obj, n, value)

\* Field.__set__ storing the value in the AsyncValue of every Field the
\* instance holds.
Assign_broadcasting(s1, obj, n, value) ==
    [s1 EXCEPT !.heap =
        [x \in DOMAIN s1.heap |->
            IF \E f \in Fields \cap DOMAIN s1.dict[obj] : s1.dict[obj][f] = x
            THEN value ELSE s1.heap[x]]]

\* Field.__set__ after _ensure_initial_value:
\* async_value = obj.__dict__[self.name]; async_value.value = value
Assign(s1, obj, n, value) == SetValue(s1, s1.dict[obj][n], value)

\* Field.__set__ that first makes the entries of all Fields of the class.
RECURSIVE EnsureFields(_, _, _)
EnsureFields(st, obj, k) ==
    IF k = 0 THEN st
    ELSE IF Decls[k].type = "Field"
    THEN Field_ensure_initial_value(EnsureFields(st, obj, k - 1), obj,
                                    Decls[k].name)
    ELSE EnsureFields(st, obj, k - 1)

Field_set_eager(st, obj, n, value) ==
    UpdateAll(Assign(EnsureFields(st, obj, Len(Decls)), obj, n, value),
              obj, dependents[n])

\* Field.__set__ that puts the instance back as it was when a dependent
\* raises.
RolledBack(r, st) ==
    IF Ok(r) THEN r ELSE [r EXCEPT !.dict = st.dict, !.heap = st.heap]

Field_set_rolling_back(st, obj, n, value) ==
    RolledBack(UpdateAll(Assign(Field_ensure_initial_value(st, obj, n),
                                obj, n, value),
                         obj, dependents[n]), st)

\* Field.__set__
Field_set(st, obj, n, value) ==
    UpdateAll(Assign(Field_ensure_initial_value(st, obj, n), obj, n, value),
              obj, dependents[n])

\* DerivedField.__set__ that assigns like Field.__set__ and raises nothing.
Derived_set_assigning(st, obj, n, value) ==
    IF n \in DOMAIN st.dict[obj]
    THEN SetValue(st, st.dict[obj][n], value)
    ELSE StoreAsyncValue(st, obj, n, value)

\* DerivedField.__set__ that stores the value before it raises.
Derived_set_storing_first(st, obj, n, value) ==
    [Derived_set_assigning(st, obj, n, value) EXCEPT !.err = "AttributeError"]

\* DerivedField.__set__
Derived_set(st, obj, n, value) ==
    [st EXCEPT !.err = "AttributeError"]

---------------------------------------------------------------------------
(* The attribute accesses of the public surface.                           *)

\* What the caller of the access sees, and the state the access leaves.
Access(op, obj, n, value, st) ==
    [op |-> op, inst |-> obj, name |-> n, value |-> value,
     outcome |-> IF Ok(st) THEN "ok" ELSE st.err,
     ret |-> IF Ok(st) /\ op = "get" THEN st.ret ELSE <<>>,
     calls |-> st.calls, gets |-> st.gets, updates |-> st.updates]

\* An access that also registers the attribute with its upstreams again,
\* as __set_name__ does.
Finish_registering(op, obj, n, value, st) ==
    /\ dict' = st.dict
    /\ heap' = st.heap
    /\ last' = Access(op, obj, n, value, st)
    /\ failed' = [failed EXCEPT ![obj] = @ \/ (op = "set" /\ n \in Fields /\ ~Ok(st))]
    /\ written' = [written EXCEPT ![obj] = IF op = "set" /\ n \in Fields
                                           THEN @ \cup {n} ELSE @]
    /\ dependents' = IF n \in Fields THEN Field_set_name(dependents, n)
                                     ELSE Derived_set_name(dependents, n)
    /\ UNCHANGED <<cls, bound>>

Finish(op, obj, n, value, st) ==
    /\ dict' = st.dict
    /\ heap' = st.heap
    /\ last' = Access(op, obj, n, value, st)
    /\ failed' = [failed EXCEPT ![obj] = @ \/ (op = "set" /\ n \in Fields /\ ~Ok(st))]
    /\ written' = [written EXCEPT ![obj] = IF op = "set" /\ n \in Fields
                                           THEN @ \cup {n} ELSE @]
    /\ UNCHANGED <<cls, bound, dependents>>

\* obj.<n> for a Field n
GetField(obj, n) ==
    /\ TypeDefined
    /\ n \in Fields
    /\ Finish("get", obj, n, 0, Field_get(Begin, obj, n))

\* obj.<n> = value for a Field n
SetField(obj, n, value) ==
    /\ TypeDefined
    /\ n \in Fields
    /\ Finish("set", obj, n, value, Field_set(Begin, obj, n, value))

\* obj.<n> for a DerivedField n
GetDerived(obj, n) ==
    /\ TypeDefined
    /\ n \in DerivedFields
    /\ Finish("get", obj, n, 0, Derived_get(Begin, obj, n))

\* obj.<n> = value for a DerivedField n
SetDerived(obj, n, value) ==
    /\ TypeDefined
    /\ n \in DerivedFields
    /\ Finish("set", obj, n, value, Derived_set(Begin, obj, n, value))

Next ==
    \/ SetName
    \/ \E obj \in Instances, n \in Names : GetField(obj, n)
    \/ \E obj \in Instances, n \in Names, value \in 0..MaxVal :
          SetField(obj, n, value)
    \/ \E obj \in Instances, n \in Names : GetDerived(obj, n)
    \/ \E obj \in Instances, n \in Names, value \in 0..MaxVal :
          SetDerived(obj, n, value)

Spec == Init /\ [][Next]_vars

---------------------------------------------------------------------------
(* Vocabulary of the properties.                                           *)

\* Every derived field is bound to its name after all declarations it
\* depends on.
Ordered ==
    \A k \in 1..Len(Decls) :
        \A j \in 1..Len(Decls[k].depends_on) :
            \E m \in 1..(k - 1) : Decls[m].name = Decls[k].depends_on[j]

Range(seq) == {seq[k] : k \in 1..Len(seq)}

\* The declarations n reads, directly or through derived fields.
RECURSIVE Reads(_)
Reads(n) ==
    Range(Decl(n).depends_on)
        \cup UNION {Reads(u) : u \in Range(Decl(n).depends_on)}

Materialized(obj, n) == n \in DOMAIN dict[obj]

Value(obj, n) == heap[dict[obj][n]]

\* In the dictionaries dc and the objects hp, the derived attribute n of
\* obj holds its compute function applied to the values of its upstreams.
CurrentIn(dc, hp, obj, n) ==
    /\ n \in DOMAIN dc[obj]
    /\ \A u \in Range(Decl(n).depends_on) : u \in DOMAIN dc[obj]
    /\ LET args == [k \in 1..Len(Decl(n).depends_on) |->
                        hp[dc[obj][Decl(n).depends_on[k]]]]
       IN /\ ~FnRaises(Decl(n).fn, args)
          /\ hp[dc[obj][n]] = Fn(Decl(n).fn, args)

\* The derived attribute n of obj holds its compute function applied to
\* the values its upstream attributes hold now.
Current(obj, n) == CurrentIn(dict, heap, obj, n)

\* The last access was an assignment to a Field that returned normally.
SourceWriteReturned ==
    last.op = "set" /\ last.name \in Fields /\ last.outcome = "ok"

---------------------------------------------------------------------------
C2_RegistryTopological ==
    (TypeDefined /\ Ordered) =>
        \A s \in Fields :
            /\ Range(dependents[s]) = {d \in DerivedFields : s \in Reads(d)}
            /\ \A p, q \in 1..Len(dependents[s]) :
                   dependents[s][q] \in Reads(dependents[s][p]) => q < p

\* The Diamond class is defined: d is listed for a once per path, after c.
C2_Witness ==
    /\ cls = "Diamond" /\ TypeDefined /\ Ordered
    /\ dependents["a"] = <<"c", "d", "d">>

\* C3: a wrapper, once created for an (instance, attribute) pair, is never
\* replaced or removed, whatever access happens, and a read returns the
\* wrapper the instance storage holds for the attribute.
C3_WrapperIdentityStable ==
    [][ /\ \A obj \in Instances : \A n \in DOMAIN dict[obj] :
               n \in DOMAIN dict'[obj] /\ dict'[obj][n] = dict[obj][n]
        /\ (last'.op = "get" /\ last'.outcome = "ok") =>
               last'.ret = dict'[last'.inst][last'.name] ]_vars

\* c is read from its cache after a write to a changed its value: the
\* wrapper returned is the first one made for the slot.
C3_Witness ==
    /\ cls = "Example"
    /\ last.op = "get" /\ last.name = "c" /\ last.inst = "X"
    /\ last.calls = <<>>
    /\ "a" \in written["X"]
    /\ last.ret = <<"X", "c", 1>>
    /\ heap[last.ret] # 3

\* C4: assigning a derived attribute raises in every state of the instance
\* and changes neither the instance dictionaries nor any contained value.
C4_DerivedWriteRejected ==
    [][ (last'.op = "set" /\ last'.name \in DerivedFields) =>
            /\ last'.outcome = "AttributeError"
            /\ dict' = dict
            /\ heap' = heap ]_vars

\* An assignment to the derived attribute d was rejected while d holds a
\* value, after one to c was rejected on the instance that has no c yet.
C4_Witness ==
    /\ last.op = "set" /\ last.name = "d" /\ last.inst = "X"
    /\ last.outcome = "AttributeError"
    /\ Materialized("X", "d") /\ Value("X", "d") > 0
    /\ ~Materialized("Y", "c")

\* C5: a write to a source attribute of one instance, its propagation
\* included, changes no entry and no contained value of another instance.
C5_InstancesIsolated ==
    [][ (last'.op = "set" /\ last'.name \in Fields) =>
            \A obj \in Instances \ {last'.inst} :
                /\ dict'[obj] = dict[obj]
                /\ \A n \in DOMAIN dict[obj] :
                       heap'[dict[obj][n]] = heap[dict[obj][n]] ]_vars

\* X was written while Y holds all its attributes with other values.
C5_Witness ==
    /\ cls = "Example" /\ SourceWriteReturned /\ last.inst = "X"
    /\ \A n \in Names : Materialized("X", n) /\ Materialized("Y", n)
    /\ Value("X", "a") # Value("Y", "a")
    /\ Value("X", "d") # Value("Y", "d")

\* The value of n computed from the declared initial values alone.
RECURSIVE InitialValue(_)
InitialValue(n) ==
    IF Decl(n).type = "Field" THEN Decl(n).initial_value
    ELSE Fn(Decl(n).fn, [k \in 1..Len(Decl(n).depends_on) |->
                            InitialValue(Decl(n).depends_on[k])])

\* C6: a read of a derived attribute on an instance no source of which has
\* been assigned returns a wrapper holding the compute function applied to
\* the initial values of its upstream attributes, transitively.
C6_InitialDerivedValue ==
    (last.op = "get" /\ last.name \in DerivedFields
         /\ written[last.inst] = {}) =>
        /\ last.outcome = "ok"
        /\ last.ret = dict[last.inst][last.name]
        /\ heap[last.ret] = InitialValue(last.name)

\* d = 2 * (1 + 2) is read on X before any assignment to X.
C6_Witness ==
    /\ cls = "Example"
    /\ last.op = "get" /\ last.name = "d" /\ last.inst = "X"
    /\ written["X"] = {}
    /\ heap[last.ret] = 6

\* C7: a read of a source attribute that was never assigned on the
\* instance returns a wrapper holding the declared initial value, whatever
\* was read or assigned before.
C7_InitialSourceValue ==
    (last.op = "get" /\ last.name \in Fields
         /\ last.name \notin written[last.inst]) =>
        /\ last.outcome = "ok"
        /\ last.ret = dict[last.inst][last.name]
        /\ heap[last.ret] = Decl(last.name).initial_value

\* b is read on X after a was assigned and everything was materialized.
C7_Witness ==
    /\ cls = "Example"
    /\ last.op = "get" /\ last.name = "b" /\ last.inst = "X"
    /\ written["X"] = {"a"} /\ Value("X", "a") = 0
    /\ Materialized("X", "d")
    /\ heap[last.ret] = 2

\* C8 as stated: an entry of the instance storage is created only by an
\* access that reads or assigns that attribute (the access itself, or a
\* getattr a compute function makes during it).
C8_AsStated ==
    [][ \A obj \in Instances : \A n \in DOMAIN dict'[obj] :
            n \notin DOMAIN dict[obj] =>
                /\ last'.inst = obj
                /\ n = last'.name \/ n \in last'.gets ]_vars

\* C8 amended: an entry is created only by an access to the same instance
\* that reads or assigns the attribute, reads it as an upstream of a
\* compute function, or assigns a source the attribute transitively reads
\* (the propagation pass materializes every dependent it recomputes).
C8_EntriesCreatedOnDemand ==
    [][ \A obj \in Instances : \A n \in DOMAIN dict'[obj] :
            n \notin DOMAIN dict[obj] =>
                /\ last'.inst = obj
                /\ \/ n = last'.name
                   \/ n \in last'.gets
                   \/ /\ last'.op = "set" /\ last'.name \in Fields
                      /\ last'.name \in Reads(n) ]_vars

\* The first access to X assigned a: c and d were computed twice each,
\* for their new entries and for the propagation pass.
C8_Witness ==
    /\ cls = "Example"
    /\ last.op = "set" /\ last.name = "a" /\ last.inst = "X"
    /\ last.calls = <<"c", "c", "d", "d">>
    /\ "d" \notin last.gets
    /\ Materialized("X", "d")

\* C9: the stored value of a derived attribute changes only in the
\* propagation pass of an assignment to a source that lists it, and its
\* entry is created only by an access that ran its compute function; a
\* read of a materialized attribute and an attempted derived assignment
\* change no derived value.
C9_DerivedSetOnlyByRecomputation ==
    [][ \A obj \in Instances : \A d \in DerivedFields :
            /\ (d \in DOMAIN dict[obj] /\ d \in DOMAIN dict'[obj]
                    /\ heap'[dict'[obj][d]] # heap[dict[obj][d]]) =>
                   /\ last'.inst = obj
                   /\ last'.op = "set" /\ last'.name \in Fields
                   /\ d \in Range(dependents[last'.name])
            /\ (d \notin DOMAIN dict[obj] /\ d \in DOMAIN dict'[obj]) =>
                   /\ last'.inst = obj
                   /\ d \in Range(last'.calls) ]_vars

\* An assignment to a has recomputed the materialized c and d once each.
C9_Witness ==
    /\ cls = "Example" /\ SourceWriteReturned
    /\ last.inst = "X" /\ last.name = "a"
    /\ last.calls = <<"c", "d">>
    /\ Value("X", "d") # 6

\* C10: a read of a derived attribute that has an entry invokes no compute
\* function and returns the value the entry held; a compute function is
\* invoked only for an attribute that has no entry yet or in the
\* propagation pass of an assignment to a source the attribute
\* transitively reads.
C10_DerivedValuesCached ==
    [][ /\ (last'.op = "get" /\ last'.name \in DerivedFields
                /\ last'.name \in DOMAIN dict[last'.inst]) =>
               /\ last'.calls = <<>>
               /\ last'.outcome = "ok"
               /\ heap'[last'.ret] = heap[dict[last'.inst][last'.name]]
        /\ \A m \in Range(last'.calls) :
               \/ m \notin DOMAIN dict[last'.inst]
               \/ /\ last'.op = "set" /\ last'.name \in Fields
                  /\ last'.name \in Reads(m) ]_vars

\* d is read from its entry after an assignment to a: no compute function
\* ran.
C10_Witness ==
    /\ cls = "Example"
    /\ last.op = "get" /\ last.name = "d" /\ last.inst = "X"
    /\ last.outcome = "ok" /\ last.calls = <<>>
    /\ "a" \in written["X"]
    /\ heap[last.ret] = 2 * Value("X", "c")

\* The last access was an assignment to a Field in whose propagation pass
\* a compute function raised.
SourceWriteRaised ==
    last.op = "set" /\ last.name \in Fields /\ last.outcome # "ok"

\* C11: when a compute function raises in the propagation pass of a source
\* write, the caller gets that exception and nothing is rolled back: the
\* source holds the value written, the dependents whose _update returned
\* hold their recomputed values, and the dependent being updated and those
\* listed after it keep the wrapper and the value they had before.
C11_FailFastNoRollback ==
    [][ SourceWriteRaised' =>
            LET obj == last'.inst
                reg == dependents[last'.name]
                p   == Len(last'.updates)
            IN /\ last'.outcome = "ZeroDivisionError"
               /\ Decl(last'.calls[Len(last'.calls)]).fn = "inv"
               /\ last'.name \in DOMAIN dict'[obj]
               /\ heap'[dict'[obj][last'.name]] = last'.value
               /\ p < Len(reg)
               /\ last'.updates = SubSeq(reg, 1, p)
               /\ Ordered => \A k \in 1..p : CurrentIn(dict', heap', obj, reg[k])
               /\ \A k \in (p + 1)..Len(reg) :
                      IF reg[k] \in DOMAIN dict[obj]
                      THEN /\ dict'[obj][reg[k]] = dict[obj][reg[k]]
                           /\ heap'[dict[obj][reg[k]]] = heap[dict[obj][reg[k]]]
                      ELSE reg[k] \notin DOMAIN dict'[obj] ]_vars

\* a = 0 was assigned in Partial with c, e, d materialized from a = 1: the
\* write raised in e, c is recomputed, e and d are as before.
C11_Witness ==
    /\ cls = "Partial" /\ SourceWriteRaised
    /\ last.inst = "X" /\ last.name = "a" /\ last.updates = <<"c">>
    /\ Materialized("X", "e") /\ Materialized("X", "d")
    /\ Value("X", "a") = 0
    /\ Value("X", "c") = 0
    /\ Value("X", "e") = 6
    /\ Value("X", "d") = 8

\* How many times n occurs in seq.
Count(seq, n) == Cardinality({k \in 1..Len(seq) : seq[k] = n})

\* C12 as stated: in the propagation pass of a source write that returns,
\* every derived field that transitively reads the written source has its
\* _update run exactly once, also when it reaches the source through more
\* than one upstream path.
C12_AsStated ==
    (Ordered /\ SourceWriteReturned) =>
        \A d \in DerivedFields :
            last.name \in Reads(d) => Count(last.updates, d) = 1

\* C13 as stated: no source write ends, normally or with an exception,
\* with some of the dependents of the written source recomputed and others
\* not.
C13_AsStated ==
    (last.op = "set" /\ last.name \in Fields) =>
        \/ Range(last.updates) = {}
        \/ Range(last.updates) = Range(dependents[last.name])

\* C13 amended: a source write that returns normally has run _update for
\* every entry of the written source's _dependents list, in list order; a
\* source write that ends with an exception has run it for a proper prefix
\* of the list only, and the entry after the prefix is the one whose
\* compute function (or that of a field it materializes) raised.
C13_PassCompleteUnlessRaised ==
    (last.op = "set" /\ last.name \in Fields) =>
        LET reg == dependents[last.name]
            p   == Len(last.updates)
        IN /\ last.outcome = "ok" => last.updates = reg
           /\ last.outcome # "ok" =>
                  /\ p < Len(reg)
                  /\ last.updates = SubSeq(reg, 1, p)
                  /\ last.calls # <<>>
                  /\ LET m == last.calls[Len(last.calls)]
                     IN m = reg[p + 1] \/ m \in Reads(reg[p + 1])

\* In Partial a write of a has run the whole list c, e, d, d on an
\* instance where an earlier write of a stopped at e.
C13_Witness ==
    /\ cls = "Partial" /\ SourceWriteReturned
    /\ last.inst = "X" /\ last.name = "a"
    /\ failed["X"]
    /\ last.updates = <<"c", "e", "d", "d">>
    /\ Value("X", "d") = 8

\* Every occurrence of u in the list reg comes after every occurrence of d.
ListedAfter(reg, u, d) ==
    \A p, q \in 1..Len(reg) : (reg[p] = d /\ reg[q] = u) => p < q

\* C14: when a derived field D is listed for a source before the derived
\* fields it reads (D was bound to its name before them), a write to that
\* source on an instance that holds those upstream attributes returns
\* without an exception and leaves D holding its compute function applied
\* to the values its upstreams had before the write.
C14_MisorderedLeavesStale ==
    [][ (last'.op = "set" /\ last'.name \in Fields) =>
            LET obj == last'.inst
                reg == dependents[last'.name]
            IN \A D \in Range(reg) :
                   (\A U \in Range(Decl(D).depends_on) :
                        /\ U \in DerivedFields
                        /\ U \in Range(reg)
                        /\ ListedAfter(reg, U, D)
                        /\ U \in DOMAIN dict[obj]) =>
                       /\ last'.outcome = "ok"
                       /\ D \in DOMAIN dict'[obj]
                       /\ heap'[dict'[obj][D]] =
                              Fn(Decl(D).fn,
                                 [k \in 1..Len(Decl(D).depends_on) |->
                                     heap[dict[obj][Decl(D).depends_on[k]]]])
       ]_vars

\* In Misordered a = 0 was assigned after c and d were read: the write
\* returned, c is 0, and d is still twice the old c.
C14_Witness ==
    /\ cls = "Misordered" /\ ~Ordered /\ SourceWriteReturned
    /\ last.inst = "X" /\ last.name = "a"
    /\ last.updates = <<"d", "c">>
    /\ Value("X", "a") = 0
    /\ Value("X", "c") = 0
    /\ Value("X", "d") = 4
    /\ ~Current("X", "d")

\* C15: the _dependents lists are built by the __set_name__ calls of the
\* type definition and by nothing else: no access to an instance (a read,
\* a source assignment with its propagation pass, a rejected derived
\* assignment, a lazy initialization) adds, removes or reorders an entry,
\* and no access happens before the type is defined.
C15_RegistriesStatic ==
    [][ /\ bound' = bound => (TypeDefined /\ dependents' = dependents)
        /\ TypeDefined => dependents' = dependents ]_vars

\* Every attribute of X was materialized, a was assigned and an
\* assignment to d was rejected: the lists are as the type definition
\* left them.
C15_Witness ==
    /\ cls = "Example" /\ TypeDefined
    /\ last.op = "set" /\ last.name = "d" /\ last.inst = "X"
    /\ last.outcome = "AttributeError"
    /\ "a" \in written["X"]
    /\ \A n \in Names : Materialized("X", n)
    /\ dependents = [a |-> <<"c", "d">>, b |-> <<"c", "d">>]

\* No compute function of the class raises.
TotalFns == \A d \in DerivedFields : Decl(d).fn # "inv"

\* C16: every read and every source assignment ends after a number of
\* steps fixed by the declarations: an assignment runs _update at most
\* once per entry of the source's _dependents list (once per entry when
\* it returns), and an access calls compute functions once per _update
\* that returned, once per derived entry it created, and once more when
\* the call raised; when no compute function of the class raises, every
\* read and source assignment returns normally.
C16_AccessesEnd ==
    [][ bound' = bound =>
            LET obj == last'.inst
                new == {d \in DerivedFields :
                            d \in DOMAIN dict'[obj] /\ d \notin DOMAIN dict[obj]}
                reg == IF last'.op = "set" /\ last'.name \in Fields
                       THEN dependents[last'.name] ELSE <<>>
                raised == IF last'.outcome = "ZeroDivisionError" THEN 1 ELSE 0
            IN /\ last'.outcome \in {"ok", "ZeroDivisionError", "AttributeError"}
               /\ Len(last'.updates) <= Len(reg)
               /\ last'.outcome = "ok" => Len(last'.updates) = Len(reg)
               /\ Len(last'.calls) =
                      Len(last'.updates) + Cardinality(new) + raised
               /\ last'.gets \subseteq Names
               /\ (TotalFns /\ ~(last'.op = "set" /\ last'.name \in DerivedFields))
                      => last'.outcome = "ok" ]_vars

\* The first access to the Diamond instance X assigned a: c and d were
\* created and the list c, d, d was walked, five compute calls in all.
C16_Witness ==
    /\ cls = "Diamond" /\ TotalFns /\ SourceWriteReturned
    /\ last.inst = "X" /\ last.name = "a"
    /\ last.updates = <<"c", "d", "d">>
    /\ last.calls = <<"c", "c", "d", "d", "d">>
    /\ last.gets = {"a", "c"}

\* C17: an assignment to the source S of an instance, whether it returns
\* or raises, leaves the wrapper and the contained value of every other
\* source attribute the instance holds and of every derived attribute it
\* holds that does not transitively read S.
C17_WriteFrame ==
    [][ (last'.op = "set" /\ last'.name \in Fields) =>
            \A n \in DOMAIN dict[last'.inst] :
                (n # last'.name /\ last'.name \notin Reads(n)) =>
                    /\ n \in DOMAIN dict'[last'.inst]
                    /\ dict'[last'.inst][n] = dict[last'.inst][n]
                    /\ heap'[dict'[last'.inst][n]] = heap[dict[last'.inst][n]]
       ]_vars

\* In Diamond b = 0 was assigned on X, which holds a, c and d: they keep
\* 1, 2 and 3, and no compute function ran.
C17_Witness ==
    /\ cls = "Diamond"
    /\ SourceWriteReturned /\ last.inst = "X" /\ last.name = "b"
    /\ last.calls = <<>>
    /\ \A n \in Names : Materialized("X", n)
    /\ Value("X", "b") = 0
    /\ Value("X", "a") = 1
    /\ Value("X", "c") = 2
    /\ Value("X", "d") = 3

\* The value no attribute holds: what a compute function that raises
\* leaves in the reference model.
NoValue == -1

\* _fn(*args) in the reference model.
ApplyFn(f, args) ==
    IF (\E k \in 1..Len(args) : args[k] = NoValue) \/ FnRaises(f, args)
    THEN NoValue
    ELSE Fn(f, args)

\* The eager reference model: the value of n when every derived field is
\* recomputed from the source values src.
RECURSIVE Eager(_, _)
Eager(src, n) ==
    IF Decl(n).type = "Field" THEN src[n]
    ELSE ApplyFn(Decl(n).fn,
                 [k \in 1..Len(Decl(n).depends_on) |->
                     Eager(src, Decl(n).depends_on[k])])

\* The value each source attribute of obj has in the dictionaries dc and
\* the objects hp: the one its entry holds, or the declared initial value
\* as long as it has no entry.
SourceValues(dc, hp, obj) ==
    [s \in Fields |-> IF s \in DOMAIN dc[obj] THEN hp[dc[obj][s]]
                      ELSE Decl(s).initial_value]

C19_MaterializedUpstreamClosed ==
    \A obj \in Instances : \A d \in DerivedFields :
        Materialized(obj, d) =>
            \A u \in Reads(d) : Materialized(obj, u)

\* The only access to X so far read d of Example: the read computed c and
\* d and left entries for a, b, c and d; Y holds a and nothing that reads
\* it.
C19_Witness ==
    /\ cls = "Example"
    /\ last.op = "get" /\ last.name = "d" /\ last.inst = "X"
    /\ last.calls = <<"c", "d">>
    /\ last.gets = {"a", "b", "c"}
    /\ DOMAIN dict["X"] = {"a", "b", "c", "d"}
    /\ DOMAIN dict["Y"] = {"a"}

====
